---- MODULE Spec2Model ----
(***************************************************************************)
(* kunpocc-event: EventManager (src/src/event/EventManager.ts) and its     *)
(* CommandManager (src/src/event/Command.ts).                              *)
(*                                                                         *)
(* The engine is single threaded; what interleaves is re-entrancy: a       *)
(* callback invoked by send may call add/addOnce/remove*/clearAll/send on   *)
(* the same engine.  send is therefore split at the points where control   *)
(* leaves it: the entry (guards, snapshot, depth++), one step per callback  *)
(* invocation, the callback's return or throw, and the exit (depth--,       *)
(* once-cleanup and queue drain at the outermost level, all in one step).   *)
(* The call stack of the send calls in progress is the variable stack.      *)
(***************************************************************************)
EXTENDS Integers, Sequences, FiniteSets, TLC

\* const MAX_RECURSION_DEPTH = 20;
MAX_RECURSION_DEPTH == 20

\* Bounds of the model.
MaxId == 2       \* registrations over the life of the engine
MaxQueue == 2    \* requests a broadcast's callbacks issue before it unwinds
MaxNest == 2     \* send calls on the call stack (Spec; SpecDeep nests to the limit)
MaxStuck == 1    \* send calls left by an exception
MaxCallNest == 1 \* send calls on the call stack (SpecCalls)
MaxFlatId == 4   \* registrations over the life of the engine (SpecFlat)

\* Inputs.  A target is an object (truthy) or absent (undefined / null).
Names == {"a", "b"}
NoTarget == "none"
Objects == {"t1", "t2"}
Targets == Objects \cup {NoTarget}
Truthy(target) == target # NoTarget

\* Event (src/unnamed/part_002); the callback is the environment's.
NewEvent(id, name, target, once) ==
    [id |-> id, name |-> name, target |-> target, once |-> once]
NullEvent == [id |-> 0, name |-> "null", target |-> "null", once |-> FALSE]

\* CommandType
CmdAdd == 1
CmdRemoveById == 2
CmdRemoveByName == 3
CmdRemoveByTarget == 4
CmdRemoveByNameAndTarget == 5
CmdClearAll == 6

(***************************************************************************)
(* Map<K, V> as a function on the keys present; Set<number> as a sequence  *)
(* without repetition, in insertion order (the order a JS Set iterates).   *)
(***************************************************************************)
EmptyMap == <<>>
Has(m, k) == k \in DOMAIN m
MapSet(m, k, v) == [x \in (DOMAIN m) \cup {k} |-> IF x = k THEN v ELSE m[x]]
MapDelete(m, k) == [x \in (DOMAIN m) \ {k} |-> m[x]]
Range(s) == {s[i] : i \in 1..Len(s)}
SetAdd(s, x) == IF x \in Range(s) THEN s ELSE Append(s, x)
SetDelete(s, x) == SelectSeq(s, LAMBDA y : y # x)

VARIABLES
    sending_depth,   \* EventManager.sending_depth
    events,          \* EventManager.events: id -> Event
    nameToIds,       \* EventManager.nameToIds: name -> Set<id>
    targetToIds,     \* EventManager.targetToIds: target -> Set<id>
    factory,         \* EventManager.factory: [nextId, recycled]
    commandManager,  \* EventManager.commandManager: [commands, index, length, clearAll]
    stack,           \* the send calls in progress, outermost first
    fired,           \* history: ids whose callback has been invoked
    issued,          \* history: requests made while sending_depth > 0, in call order
    registered,      \* history: the ids add and addOnce have returned, in call order
    called           \* history: the last call of a public method (SpecCalls only)

vars == <<sending_depth, events, nameToIds, targetToIds, factory, commandManager,
          stack, fired, issued, registered, called>>

(***************************************************************************)
(* CommandManager                                                          *)
(***************************************************************************)
NewCommand(type, eventId, event, name, target) ==
    [type |-> type, eventId |-> eventId, event |-> event, name |-> name, target |-> target]

\* Command.reset
ResetCommand == NewCommand(CmdAdd, 0, NullEvent, "null", "null")

\* The slot write shared by addEvent and add: push a new Command when
\* index == length, otherwise overwrite commands[index++].
CM_put(cm, command) ==
    IF cm.index = cm.length
    THEN [cm EXCEPT !.commands = Append(@, command),
                    !.length = @ + 1,
                    !.index = @ + 1]
    ELSE [cm EXCEPT !.commands[cm.index + 1] = command,
                    !.index = @ + 1]

\* CommandManager.addEvent: a reused slot keeps the fields reset left in it.
CM_addEvent(cm, event) ==
    CM_put(cm, NewCommand(CmdAdd, 0, event, "null", "null"))

\* CommandManager.add: ClearAll only raises the flag.
CM_add(cm, type, eventId, name, target) ==
    IF type = CmdClearAll
    THEN [cm EXCEPT !.clearAll = TRUE]
    ELSE CM_put(cm, NewCommand(type, eventId, NullEvent, name, target))

\* CommandManager.clear
CM_clear(cm) == [commands |-> <<>>, index |-> 0, length |-> 0, clearAll |-> FALSE]

(***************************************************************************)
(* EventManager: each method is an operator from the engine (a record of    *)
(* its fields) to the engine after the call.                                *)
(***************************************************************************)
Engine ==
    [sending_depth |-> sending_depth, events |-> events, nameToIds |-> nameToIds,
     targetToIds |-> targetToIds, factory |-> factory, commandManager |-> commandManager]

Commit(em) ==
    /\ sending_depth' = em.sending_depth
    /\ events' = em.events
    /\ nameToIds' = em.nameToIds
    /\ targetToIds' = em.targetToIds
    /\ factory' = em.factory
    /\ commandManager' = em.commandManager

\* allocate handing out the id of a recycled record again: the lowest id that no
\* registered record carries.
Allocate_reuse(em) ==
    CHOOSE id \in 1..em.factory.nextId :
        /\ id \notin DOMAIN em.events
        /\ \A other \in 1..(id - 1) : other \in DOMAIN em.events

\* EventFactory.allocate: a record carrying a fresh id.
Allocate(em) == em.factory.nextId
AfterAllocate(em) == [em EXCEPT !.factory.nextId = @ + 1]

\* EventFactory.recycle, for each record of ids: recycled counts, per id, the times
\* the record carrying it was passed to recycle.
Recycle(f, ids) ==
    [f EXCEPT !.recycled =
        [id \in (DOMAIN f.recycled) \cup ids |->
            (IF id \in DOMAIN f.recycled THEN f.recycled[id] ELSE 0)
                + (IF id \in ids THEN 1 ELSE 0)]]

\* _addEvent putting the new id in front of its name bucket.
_addEvent_prepend(em, event) ==
    LET ids == IF Has(em.nameToIds, event.name) THEN em.nameToIds[event.name] ELSE <<>>
        tids == IF Has(em.targetToIds, event.target)
                THEN em.targetToIds[event.target] ELSE <<>>
    IN [em EXCEPT
          !.events = MapSet(@, event.id, event),
          !.nameToIds = MapSet(@, event.name, <<event.id>> \o SetDelete(ids, event.id)),
          !.targetToIds = IF Truthy(event.target)
                          THEN MapSet(@, event.target, SetAdd(tids, event.id))
                          ELSE @]

\* EventManager._addEvent
_addEvent(em, event) ==
    LET ids == IF Has(em.nameToIds, event.name) THEN em.nameToIds[event.name] ELSE <<>>
        tids == IF Has(em.targetToIds, event.target)
                THEN em.targetToIds[event.target] ELSE <<>>
    IN [em EXCEPT
          !.events = MapSet(@, event.id, event),
          !.nameToIds = MapSet(@, event.name, SetAdd(ids, event.id)),
          !.targetToIds = IF Truthy(event.target)
                          THEN MapSet(@, event.target, SetAdd(tids, event.id))
                          ELSE @]

\* add and addOnce without the test of sending_depth: the record is always indexed
\* at once.
Register_direct(em, name, target, once) ==
    _addEvent(AfterAllocate(em), NewEvent(Allocate(em), name, target, once))

\* The body add and addOnce share after their argument checks.
Register(em, name, target, once) ==
    LET event == NewEvent(Allocate(em), name, target, once)
        em1 == AfterAllocate(em)
    IN IF em1.sending_depth > 0
       THEN [em1 EXCEPT !.commandManager = CM_addEvent(@, event)]
       ELSE _addEvent(em1, event)

\* EventManager.add
add(em, name, target) == Register(em, name, target, FALSE)

\* EventManager.addOnce
addOnce(em, name, target) == Register(em, name, target, TRUE)

\* remove without the sending_depth test: the record goes at once, under a
\* broadcast too.
remove_atOnce(em, eventId) ==
    IF ~Has(em.events, eventId) THEN em
    ELSE LET event == em.events[eventId]
         IN [em EXCEPT
               !.events = MapDelete(@, eventId),
               !.factory = Recycle(@, {eventId}),
               !.nameToIds = IF Has(@, event.name)
                             THEN [@ EXCEPT ![event.name] = SetDelete(@, eventId)]
                             ELSE @,
               !.targetToIds = IF Truthy(event.target) /\ Has(@, event.target)
                               THEN [@ EXCEPT ![event.target] = SetDelete(@, eventId)]
                               ELSE @]

\* remove testing sending_depth before events.has: an unknown id is queued.
remove_depthFirst(em, eventId) ==
    IF em.sending_depth > 0
    THEN [em EXCEPT !.commandManager = CM_add(@, CmdRemoveById, eventId, "null", "null")]
    ELSE IF ~Has(em.events, eventId) THEN em
    ELSE LET event == em.events[eventId]
         IN [em EXCEPT
               !.events = MapDelete(@, eventId),
               !.factory = Recycle(@, {eventId}),
               !.nameToIds = IF Has(@, event.name)
                             THEN [@ EXCEPT ![event.name] = SetDelete(@, eventId)]
                             ELSE @,
               !.targetToIds = IF Truthy(event.target) /\ Has(@, event.target)
                               THEN [@ EXCEPT ![event.target] = SetDelete(@, eventId)]
                               ELSE @]

\* EventManager.remove
remove(em, eventId) ==
    IF ~Has(em.events, eventId) THEN em
    ELSE IF em.sending_depth > 0
    THEN [em EXCEPT !.commandManager = CM_add(@, CmdRemoveById, eventId, "null", "null")]
    ELSE LET event == em.events[eventId]
             name == event.name
             target == event.target
         IN [em EXCEPT
               !.events = MapDelete(@, eventId),
               !.factory = Recycle(@, {eventId}),
               !.nameToIds = IF Has(@, name)
                             THEN [@ EXCEPT ![name] = SetDelete(@, eventId)]
                             ELSE @,
               !.targetToIds = IF Truthy(target) /\ Has(@, target)
                               THEN [@ EXCEPT ![target] = SetDelete(@, eventId)]
                               ELSE @]

\* for (const id of ids) this.remove(id)
RECURSIVE RemoveEach(_, _)
RemoveEach(em, ids) ==
    IF ids = <<>> THEN em ELSE RemoveEach(remove(em, Head(ids)), Tail(ids))


\* removeByName leaving the ids in their target buckets.
removeByName_keepTargets(em, name) ==
    IF ~Has(em.nameToIds, name) THEN em
    ELSE IF em.nameToIds[name] = <<>> THEN em
    ELSE IF em.sending_depth > 0
    THEN [em EXCEPT !.commandManager = CM_add(@, CmdRemoveByName, 0, name, "null")]
    ELSE LET gone == {id \in Range(em.nameToIds[name]) : Has(em.events, id)}
         IN [em EXCEPT
               !.events = [id \in (DOMAIN @) \ gone |-> @[id]],
               !.factory = Recycle(@, gone),
               !.nameToIds = MapDelete(@, name)]

\* EventManager.removeByName
removeByName(em, name) ==
    IF ~Has(em.nameToIds, name) THEN em
    ELSE IF em.nameToIds[name] = <<>> THEN em
    ELSE IF em.sending_depth > 0
    THEN [em EXCEPT !.commandManager = CM_add(@, CmdRemoveByName, 0, name, "null")]
    ELSE LET eventIds == em.nameToIds[name]
             gone == {id \in Range(eventIds) : Has(em.events, id)}
         IN [em EXCEPT
               !.targetToIds =
                   [t \in DOMAIN @ |->
                       SelectSeq(@[t], LAMBDA id : ~(id \in gone /\ em.events[id].target = t))],
               !.events = [id \in (DOMAIN @) \ gone |-> @[id]],
               !.factory = Recycle(@, gone),
               !.nameToIds = MapDelete(@, name)]

\* removeByNameAndTarget whose scan of the name bucket takes every id, whatever
\* its target.
removeByNameAndTarget_nameScanAll(em, name, target) ==
    IF ~Has(em.nameToIds, name) THEN em
    ELSE LET nameIds == em.nameToIds[name]
             hasT == Has(em.targetToIds, target)
             targetIds == IF hasT THEN em.targetToIds[target] ELSE <<>>
         IN IF nameIds = <<>> \/ ~hasT \/ targetIds = <<>> THEN em
            ELSE IF em.sending_depth > 0
            THEN [em EXCEPT !.commandManager =
                                CM_add(@, CmdRemoveByNameAndTarget, 0, name, target)]
            ELSE LET needRemoveIds ==
                         IF Len(nameIds) < Len(targetIds)
                         THEN nameIds
                         ELSE SelectSeq(targetIds, LAMBDA id : em.events[id].name = name)
                 IN RemoveEach(em, needRemoveIds)

\* removeByTarget without this.events.delete(eventId): the records stay in events.
removeByTarget_keepRecord(em, target) ==
    IF ~Has(em.targetToIds, target) THEN em
    ELSE IF em.targetToIds[target] = <<>> THEN em
    ELSE IF em.sending_depth > 0
    THEN [em EXCEPT !.commandManager = CM_add(@, CmdRemoveByTarget, 0, "null", target)]
    ELSE LET gone == {id \in Range(em.targetToIds[target]) : Has(em.events, id)}
         IN [em EXCEPT
               !.nameToIds =
                   [n \in DOMAIN @ |->
                       SelectSeq(@[n], LAMBDA id : ~(id \in gone /\ em.events[id].name = n))],
               !.factory = Recycle(@, gone),
               !.targetToIds = MapDelete(@, target)]

\* EventManager.removeByTarget
removeByTarget(em, target) ==
    IF ~Has(em.targetToIds, target) THEN em
    ELSE IF em.targetToIds[target] = <<>> THEN em
    ELSE IF em.sending_depth > 0
    THEN [em EXCEPT !.commandManager = CM_add(@, CmdRemoveByTarget, 0, "null", target)]
    ELSE LET eventIds == em.targetToIds[target]
             gone == {id \in Range(eventIds) : Has(em.events, id)}
         IN [em EXCEPT
               !.nameToIds =
                   [n \in DOMAIN @ |->
                       SelectSeq(@[n], LAMBDA id : ~(id \in gone /\ em.events[id].name = n))],
               !.events = [id \in (DOMAIN @) \ gone |-> @[id]],
               !.factory = Recycle(@, gone),
               !.targetToIds = MapDelete(@, target)]

\* EventManager.removeByNameAndTarget.  The scan reads events.get(eventId).target
\* (or .name) of every id of the smaller bucket; an id of a bucket is always a key
\* of events (C18_IndicesConsistent), so the read is defined.
removeByNameAndTarget(em, name, target) ==
    IF ~Has(em.nameToIds, name) THEN em
    ELSE LET nameIds == em.nameToIds[name]
             hasT == Has(em.targetToIds, target)
             targetIds == IF hasT THEN em.targetToIds[target] ELSE <<>>
         IN IF nameIds = <<>> \/ ~hasT \/ targetIds = <<>> THEN em
            ELSE IF em.sending_depth > 0
            THEN [em EXCEPT !.commandManager =
                                CM_add(@, CmdRemoveByNameAndTarget, 0, name, target)]
            ELSE LET needRemoveIds ==
                         IF Len(nameIds) < Len(targetIds)
                         THEN SelectSeq(nameIds, LAMBDA id : em.events[id].target = target)
                         ELSE SelectSeq(targetIds, LAMBDA id : em.events[id].name = name)
                 IN RemoveEach(em, needRemoveIds)

\* clearAll without this.commandManager.clear().
clearAll_keepQueue(em) ==
    IF em.sending_depth > 0
    THEN [em EXCEPT !.commandManager = CM_add(@, CmdClearAll, 0, "null", "null")]
    ELSE [em EXCEPT !.events = EmptyMap,
                    !.factory = Recycle(@, DOMAIN em.events),
                    !.nameToIds = EmptyMap,
                    !.targetToIds = EmptyMap,
                    !.sending_depth = 0]

\* EventManager.clearAll
clearAll(em) ==
    IF em.sending_depth > 0
    THEN [em EXCEPT !.commandManager = CM_add(@, CmdClearAll, 0, "null", "null")]
    ELSE [em EXCEPT !.events = EmptyMap,
                    !.factory = Recycle(@, DOMAIN em.events),
                    !.nameToIds = EmptyMap,
                    !.targetToIds = EmptyMap,
                    !.commandManager = CM_clear(@),
                    !.sending_depth = 0]

\* The callback of forEach without its RemoveById case.
ApplyCommand_noRemoveById(em, command) ==
    CASE command.type = CmdAdd -> _addEvent(em, command.event)
      [] command.type = CmdRemoveById -> em
      [] command.type = CmdRemoveByName -> removeByName(em, command.name)
      [] command.type = CmdRemoveByTarget -> removeByTarget(em, command.target)
      [] command.type = CmdRemoveByNameAndTarget ->
             removeByNameAndTarget(em, command.name, command.target)
      [] command.type = CmdClearAll -> clearAll(em)

\* The callback send passes to commandManager.forEach.
ApplyCommand(em, command) ==
    CASE command.type = CmdAdd -> _addEvent(em, command.event)
      [] command.type = CmdRemoveById -> remove(em, command.eventId)
      [] command.type = CmdRemoveByName -> removeByName(em, command.name)
      [] command.type = CmdRemoveByTarget -> removeByTarget(em, command.target)
      [] command.type = CmdRemoveByNameAndTarget ->
             removeByNameAndTarget(em, command.name, command.target)
      [] command.type = CmdClearAll -> clearAll(em)

RECURSIVE ApplyEach(_, _)
ApplyEach(em, cmds) ==
    IF cmds = <<>> THEN em ELSE ApplyEach(ApplyCommand(em, Head(cmds)), Tail(cmds))

\* forEach without the clear-all shortcut: the queue is replayed as it stands.
forEach_ignoreFlag(em) ==
    LET cm == em.commandManager
        em1 == ApplyEach(em, SubSeq(cm.commands, 1, cm.index))
    IN [em1 EXCEPT
          !.commandManager.commands =
              [i \in 1..Len(@) |-> IF i <= cm.index THEN ResetCommand ELSE @[i]],
          !.commandManager.index = 0]

\* forEach stopping one command short (i < index - 1).
forEach_skipLast(em) ==
    LET cm == em.commandManager
    IN IF cm.clearAll
       THEN ApplyCommand(em, NewCommand(CmdClearAll, 0, NullEvent, "null", "null"))
       ELSE LET em1 == ApplyEach(em, SubSeq(cm.commands, 1, cm.index - 1))
            IN [em1 EXCEPT
                  !.commandManager.commands =
                      [i \in 1..Len(@) |-> IF i <= cm.index THEN ResetCommand ELSE @[i]],
                  !.commandManager.index = 0]

\* forEach without this.index = 0: the commands stay pending after the drain.
forEach_keepIndex(em) ==
    LET cm == em.commandManager
    IN IF cm.clearAll
       THEN ApplyCommand(em, NewCommand(CmdClearAll, 0, NullEvent, "null", "null"))
       ELSE LET em1 == ApplyEach(em, SubSeq(cm.commands, 1, cm.index))
            IN [em1 EXCEPT
                  !.commandManager.commands =
                      [i \in 1..Len(@) |-> IF i <= cm.index THEN ResetCommand ELSE @[i]]]

\* CommandManager.forEach with that callback: the clear-all flag replaces the whole
\* queue by one ClearAll; otherwise commands[0 .. index-1] are applied in order,
\* each reset after its turn, and index returns to 0.
forEach(em) ==
    LET cm == em.commandManager
    IN IF cm.clearAll
       THEN ApplyCommand(em, NewCommand(CmdClearAll, 0, NullEvent, "null", "null"))
       ELSE LET em1 == ApplyEach(em, SubSeq(cm.commands, 1, cm.index))
            IN [em1 EXCEPT
                  !.commandManager.commands =
                      [i \in 1..Len(@) |-> IF i <= cm.index THEN ResetCommand ELSE @[i]],
                  !.commandManager.index = 0]

(***************************************************************************)
(* send                                                                    *)
(***************************************************************************)
\* The test of the snapshot loop with listeners that have no target always passing.
Matches_untargeted(target, event) ==
    ~Truthy(target) \/ target = event.target \/ ~Truthy(event.target)

\* if (!target || target === event.target)
Matches(target, event) == ~Truthy(target) \/ target = event.target

\* The snapshot loop marking every once-listener of the bucket for removal, matched
\* by the target or not.
RECURSIVE BuildLists_onceAlways(_, _, _, _)
BuildLists_onceAlways(em, ids, target, acc) ==
    IF ids = <<>> THEN acc
    ELSE LET eventId == Head(ids)
             rest == Tail(ids)
         IN IF ~Has(em.events, eventId)
            THEN BuildLists_onceAlways(em, rest, target,
                            [acc EXCEPT !.needRemoveIds = Append(@, eventId)])
            ELSE LET event == em.events[eventId]
                     marked == IF event.once
                               THEN Append(acc.needRemoveIds, eventId)
                               ELSE acc.needRemoveIds
                 IN IF Matches(target, event)
                    THEN BuildLists_onceAlways(em, rest, target,
                             [triggerList |-> Append(acc.triggerList, event),
                              needRemoveIds |-> marked])
                    ELSE BuildLists_onceAlways(em, rest, target,
                             [acc EXCEPT !.needRemoveIds = marked])

\* The loop that builds triggerList and needRemoveIds from the name bucket.
RECURSIVE BuildLists(_, _, _, _)
BuildLists(em, ids, target, acc) ==
    IF ids = <<>> THEN acc
    ELSE LET eventId == Head(ids)
             rest == Tail(ids)
         IN IF ~Has(em.events, eventId)
            THEN BuildLists(em, rest, target,
                            [acc EXCEPT !.needRemoveIds = Append(@, eventId)])
            ELSE LET event == em.events[eventId]
                 IN IF Matches(target, event)
                    THEN BuildLists(em, rest, target,
                             [triggerList |-> Append(acc.triggerList, event),
                              needRemoveIds |-> IF event.once
                                                THEN Append(acc.needRemoveIds, eventId)
                                                ELSE acc.needRemoveIds])
                    ELSE BuildLists(em, rest, target, acc)

\* send taking the listeners waiting in the queue into its snapshot as well.
NewFrame_withQueued(em, name, target) ==
    LET lists == BuildLists(em, em.nameToIds[name], target,
                            [triggerList |-> <<>>, needRemoveIds |-> <<>>])
        cm == em.commandManager
        pending == SelectSeq(SubSeq(cm.commands, 1, cm.index),
                             LAMBDA c : /\ c.type = CmdAdd
                                        /\ c.event.name = name
                                        /\ Matches(target, c.event))
    IN [name |-> name, target |-> target,
        triggerList |-> lists.triggerList \o [i \in 1..Len(pending) |-> pending[i].event],
        needRemoveIds |-> lists.needRemoveIds,
        pos |-> 0, inCb |-> FALSE, exc |-> FALSE]

\* The frame of a send call that got past its guards.
NewFrame(em, name, target) ==
    LET lists == BuildLists(em, em.nameToIds[name], target,
                            [triggerList |-> <<>>, needRemoveIds |-> <<>>])
    IN [name |-> name, target |-> target,
        triggerList |-> lists.triggerList, needRemoveIds |-> lists.needRemoveIds,
        pos |-> 0, inCb |-> FALSE, exc |-> FALSE]

\* send without depth guard.
SendRefused_never(em) == FALSE

\* The depth guard written with > for >=.
SendRefused_offByOne(em) == em.sending_depth > MAX_RECURSION_DEPTH

\* The second guard of send without the test of the bucket's size.
SendNoListener_missingOnly(em, name) == ~Has(em.nameToIds, name)

\* The guards of send: the depth guard, then a missing or empty name bucket.
SendRefused(em) == em.sending_depth >= MAX_RECURSION_DEPTH
SendNoListener(em, name) == ~Has(em.nameToIds, name) \/ em.nameToIds[name] = <<>>

\* The end of send: sending_depth--, and at the outermost level the once-cleanup
\* with this call's needRemoveIds followed by the queue drain.
sendExit(em, frame) ==
    LET em1 == [em EXCEPT !.sending_depth = @ - 1]
    IN IF em1.sending_depth = 0
       THEN forEach(RemoveEach(em1, frame.needRemoveIds))
       ELSE em1

(***************************************************************************)
(* The environment: the top-level caller and the callbacks.  Whoever is     *)
(* running may call any method: the top-level caller when no send is on the *)
(* stack, otherwise the callback the innermost send is executing.           *)
(***************************************************************************)
Top == stack[Len(stack)]
Pop == SubSeq(stack, 1, Len(stack) - 1)
Running == IF stack = <<>> THEN TRUE ELSE Top.inCb /\ ~Top.exc

\* Names and targets are opaque identities, compared only for equality: the first
\* registration is the one whose name is "a" and whose target, if any, is "t1".
FirstUse(name, target) ==
    factory.nextId = 1 => name = "a" /\ target \in {NoTarget, "t1"}

NoCall == [op |-> "none", eventId |-> 0, name |-> "null", callback |-> FALSE,
           target |-> "null"]

Init ==
    /\ sending_depth = 0
    /\ events = EmptyMap
    /\ nameToIds = EmptyMap
    /\ targetToIds = EmptyMap
    /\ factory = [nextId |-> 1, recycled |-> EmptyMap]
    /\ commandManager = [commands |-> <<>>, index |-> 0, length |-> 0, clearAll |-> FALSE]
    /\ stack = <<>>
    /\ fired = {}
    /\ issued = <<>>
    /\ registered = <<>>
    /\ called = NoCall

\* What the histories record: nothing, the calls made under a broadcast (issued),
\* or the last call made (called).
LogOff == "off"
LogIssued == "issued"
LogCalls == "calls"

\* A call as called records it: the method and its arguments (callback: given or not).
Call(op, eventId, name, callback, target) ==
    [op |-> op, eventId |-> eventId, name |-> name, callback |-> callback,
     target |-> target]

\* The call that asks for command.
CallOf(command) ==
    CASE command.type = CmdAdd ->
             Call(IF command.event.once THEN "addOnce" ELSE "add", 0,
                  command.event.name, TRUE, command.event.target)
      [] command.type = CmdRemoveById ->
             Call("remove", command.eventId, "null", FALSE, "null")
      [] command.type = CmdRemoveByName ->
             Call("removeByName", 0, command.name, FALSE, "null")
      [] command.type = CmdRemoveByTarget ->
             Call("removeByTarget", 0, "null", FALSE, command.target)
      [] command.type = CmdRemoveByNameAndTarget ->
             Call("removeByNameAndTarget", 0, command.name, FALSE, command.target)
      [] command.type = CmdClearAll ->
             Call("clearAll", 0, "null", FALSE, "null")

\* A call of a mutating method that leaves the engine as em.  While sending_depth > 0
\* at most MaxQueue commands are queued; with LogIssued at most MaxQueue calls are
\* made and each is recorded in issued, whether the method queued it or not.
Request(em, command, log) ==
    /\ Running
    /\ sending_depth > 0 => commandManager.index < MaxQueue /\ Len(issued) < MaxQueue
    /\ Commit(em)
    /\ issued' = IF log = LogIssued /\ sending_depth > 0
                 THEN Append(issued, command) ELSE issued
    /\ called' = IF log = LogCalls THEN CallOf(command) ELSE called
    /\ UNCHANGED <<stack, fired>>

Add(name, target, log) ==
    /\ factory.nextId <= MaxId
    /\ FirstUse(name, target)
    /\ Request(add(Engine, name, target),
               NewCommand(CmdAdd, 0, NewEvent(factory.nextId, name, target, FALSE),
                          "null", "null"), log)
    /\ registered' = Append(registered, Allocate(Engine))

AddOnce(name, target, log) ==
    /\ factory.nextId <= MaxId
    /\ FirstUse(name, target)
    /\ Request(addOnce(Engine, name, target),
               NewCommand(CmdAdd, 0, NewEvent(factory.nextId, name, target, TRUE),
                          "null", "null"), log)
    /\ registered' = Append(registered, Allocate(Engine))

Remove(eventId, log) ==
    /\ Request(remove(Engine, eventId),
               NewCommand(CmdRemoveById, eventId, NullEvent, "null", "null"), log)
    /\ UNCHANGED registered

RemoveByName(name, log) ==
    /\ Request(removeByName(Engine, name),
               NewCommand(CmdRemoveByName, 0, NullEvent, name, "null"), log)
    /\ UNCHANGED registered

RemoveByTarget(target, log) ==
    /\ Request(removeByTarget(Engine, target),
               NewCommand(CmdRemoveByTarget, 0, NullEvent, "null", target), log)
    /\ UNCHANGED registered

RemoveByNameAndTarget(name, target, log) ==
    /\ Request(removeByNameAndTarget(Engine, name, target),
               NewCommand(CmdRemoveByNameAndTarget, 0, NullEvent, name, target), log)
    /\ UNCHANGED registered

ClearAll(log) ==
    /\ Request(clearAll(Engine), NewCommand(CmdClearAll, 0, NullEvent, "null", "null"), log)
    /\ UNCHANGED registered

\* The names a caller may pass to add and addOnce, the empty one included; the
\* callback is given (TRUE) or missing (FALSE).
EmptyName == ""
ArgNames == Names \cup {EmptyName}

\* The argument check that tests the callback only.
InvalidArgument_callbackOnly(name, callback) == ~callback

\* if (!name) throw ...; if (!callback) throw ...
InvalidArgument(name, callback) == name = EmptyName \/ ~callback

\* A call that throws at its argument check: the error goes to the caller, the
\* engine is as it was.
Rejected(call, log) ==
    /\ Running
    /\ called' = IF log = LogCalls THEN call ELSE called
    /\ UNCHANGED <<sending_depth, events, nameToIds, targetToIds, factory,
                   commandManager, stack, fired, issued, registered>>

\* add(name, callback, target), argument check included.
AddCall(name, callback, target, log) ==
    IF InvalidArgument(name, callback)
    THEN Rejected(Call("add", 0, name, callback, target), log)
    ELSE Add(name, target, log)

\* addOnce(name, callback, target), argument check included.
AddOnceCall(name, callback, target, log) ==
    IF InvalidArgument(name, callback)
    THEN Rejected(Call("addOnce", 0, name, callback, target), log)
    ELSE AddOnce(name, target, log)

\* send with triggerList and needRemoveIds kept in fields of the engine, not in
\* locals: a nested call overwrites the lists of the calls it is nested in.
SendCall_sharedLists(name, target, maxNest) ==
    /\ Running
    /\ Len(stack) < maxNest
    /\ IF SendRefused(Engine) \/ SendNoListener(Engine, name)
       THEN UNCHANGED <<sending_depth, stack, events, nameToIds, targetToIds, factory,
                        commandManager, fired, issued, registered, called>>
       ELSE /\ sending_depth' = sending_depth + 1
            /\ LET frame == NewFrame(Engine, name, target)
               IN stack' = Append([i \in 1..Len(stack) |->
                                      [stack[i] EXCEPT
                                         !.triggerList = frame.triggerList,
                                         !.needRemoveIds = frame.needRemoveIds]],
                                  frame)
            /\ UNCHANGED <<events, nameToIds, targetToIds, factory, commandManager,
                           fired, issued, registered, called>>

\* send(name, target) up to its first callback: refused by the depth guard or
\* returning at once for a name without listener, it changes nothing; otherwise
\* sending_depth++ and the snapshot is taken.
SendCall(name, target, maxNest) ==
    /\ Running
    /\ Len(stack) < maxNest
    /\ IF SendRefused(Engine) \/ SendNoListener(Engine, name)
       THEN UNCHANGED <<sending_depth, stack, events, nameToIds, targetToIds, factory,
                        commandManager, fired, issued, registered, called>>
       ELSE /\ sending_depth' = sending_depth + 1
            /\ stack' = Append(stack, NewFrame(Engine, name, target))
            /\ UNCHANGED <<events, nameToIds, targetToIds, factory, commandManager,
                           fired, issued, registered, called>>

Send(name, target) == SendCall(name, target, MaxNest)

\* send(name, target) with the call recorded.  A call that returns at its guards
\* may be made at any nesting.
SendCalled(name, target) ==
    /\ Running
    /\ IF SendRefused(Engine) \/ SendNoListener(Engine, name)
       THEN TRUE
       ELSE Len(stack) < MaxCallNest
    /\ called' = Call("send", 0, name, FALSE, target)
    /\ IF SendRefused(Engine) \/ SendNoListener(Engine, name)
       THEN UNCHANGED <<sending_depth, stack, events, nameToIds, targetToIds, factory,
                        commandManager, fired, issued, registered>>
       ELSE /\ sending_depth' = sending_depth + 1
            /\ stack' = Append(stack, NewFrame(Engine, name, target))
            /\ UNCHANGED <<events, nameToIds, targetToIds, factory, commandManager,
                           fired, issued, registered>>

\* for (const event of triggerList) event.callback(...args): the next callback starts.
Invoke ==
    /\ stack # <<>>
    /\ ~Top.inCb
    /\ Top.pos < Len(Top.triggerList)
    /\ stack' = [stack EXCEPT ![Len(stack)].pos = @ + 1, ![Len(stack)].inCb = TRUE]
    /\ fired' = fired \cup {Top.triggerList[Top.pos + 1].id}
    /\ UNCHANGED <<sending_depth, events, nameToIds, targetToIds, factory,
                   commandManager, issued, registered, called>>

\* The running callback returns to the loop.
CallbackReturn ==
    /\ stack # <<>>
    /\ Top.inCb /\ ~Top.exc
    /\ stack' = [stack EXCEPT ![Len(stack)].inCb = FALSE]
    /\ UNCHANGED <<sending_depth, events, nameToIds, targetToIds, factory,
                   commandManager, fired, issued, registered, called>>

\* An exception leaves the innermost send: nothing catches it there, so the loop
\* is abandoned and sending_depth-- is not reached.  It arrives in the callback
\* that made the call, if any, else at the top-level caller.
Unwind ==
    IF Len(stack) > 1
    THEN [Pop EXCEPT ![Len(stack) - 1].exc = TRUE]
    ELSE <<>>

\* The running callback throws.
CallbackThrow ==
    /\ stack # <<>>
    /\ Top.inCb /\ ~Top.exc
    /\ sending_depth - Len(stack) < MaxStuck
    /\ stack' = Unwind
    /\ UNCHANGED <<sending_depth, events, nameToIds, targetToIds, factory,
                   commandManager, fired, issued, registered, called>>

\* A callback whose nested send threw catches the exception and goes on.
CallbackCatch ==
    /\ stack # <<>>
    /\ Top.exc
    /\ stack' = [stack EXCEPT ![Len(stack)].exc = FALSE]
    /\ UNCHANGED <<sending_depth, events, nameToIds, targetToIds, factory,
                   commandManager, fired, issued, registered, called>>

\* A callback whose nested send threw lets the exception through.
CallbackRethrow ==
    /\ stack # <<>>
    /\ Top.exc
    /\ stack' = Unwind
    /\ UNCHANGED <<sending_depth, events, nameToIds, targetToIds, factory,
                   commandManager, fired, issued, registered, called>>

\* The loop is over: sending_depth--, the outermost-level cleanup, return.
SendReturn ==
    /\ stack # <<>>
    /\ ~Top.inCb
    /\ Top.pos = Len(Top.triggerList)
    /\ Commit(sendExit(Engine, Top))
    /\ stack' = Pop
    /\ issued' = IF sending_depth = 1 THEN <<>> ELSE issued
    /\ UNCHANGED <<fired, registered, called>>

\* The mutating calls the running code may make; an id passed to remove is one
\* that add or addOnce has returned.
Requests(log) ==
    \/ \E name \in ArgNames, callback \in BOOLEAN, target \in Targets :
           AddCall(name, callback, target, log)
    \/ \E name \in ArgNames, callback \in BOOLEAN, target \in Targets :
           AddOnceCall(name, callback, target, log)
    \/ \E eventId \in 1..(factory.nextId - 1) : Remove(eventId, log)
    \/ \E name \in Names : RemoveByName(name, log)
    \/ \E target \in Targets : RemoveByTarget(target, log)
    \/ \E name \in Names, target \in Targets : RemoveByNameAndTarget(name, target, log)
    \/ ClearAll(log)

\* The steps of send calls whose callbacks return.
Broadcast ==
    \/ \E name \in Names, target \in Targets : Send(name, target)
    \/ Invoke
    \/ CallbackReturn
    \/ SendReturn

\* Exceptions thrown by callbacks.
Exceptions ==
    \/ CallbackThrow
    \/ CallbackCatch
    \/ CallbackRethrow

\* Any caller, any callbacks, exceptions included.
Next == Requests(LogOff) \/ Broadcast \/ Exceptions

Spec == Init /\ [][Next]_vars

\* Callbacks that return, with the calls made under each broadcast recorded.
NextLog == Requests(LogIssued) \/ Broadcast

SpecLog == Init /\ [][NextLog]_vars

\* add called at top level, up to MaxFlatId times.
AddFlat(name, target) ==
    /\ stack = <<>>
    /\ factory.nextId <= MaxFlatId
    /\ FirstUse(name, target)
    /\ Commit(add(Engine, name, target))
    /\ registered' = Append(registered, Allocate(Engine))
    /\ called' = Call("add", 0, name, TRUE, target)
    /\ UNCHANGED <<stack, fired, issued>>

\* The record of the last call is dropped: the next call, whatever it is, differs
\* from it.
Forget ==
    /\ called # NoCall
    /\ called' = NoCall
    /\ UNCHANGED <<sending_depth, events, nameToIds, targetToIds, factory,
                   commandManager, stack, fired, issued, registered>>

\* Callbacks that return, with the last call of a public method recorded.
NextCalls ==
    \/ Requests(LogCalls)
    \/ Forget
    \/ \E name \in Names, target \in Targets : SendCalled(name, target)
    \/ Invoke
    \/ CallbackReturn
    \/ SendReturn

SpecCalls == Init /\ [][NextCalls]_vars

\* Registrations and removals at top level, no send: sending_depth stays 0.
NextFlat ==
    \/ \E name \in Names, target \in Targets : AddFlat(name, target)
    \/ \E eventId \in 1..(factory.nextId - 1) : Remove(eventId, LogCalls)
    \/ \E name \in Names : RemoveByName(name, LogCalls)
    \/ \E target \in Targets : RemoveByTarget(target, LogCalls)
    \/ \E name \in Names, target \in Targets :
           RemoveByNameAndTarget(name, target, LogCalls)
    \/ ClearAll(LogCalls)
    \/ Forget

SpecFlat == Init /\ [][NextFlat]_vars

\* One listener at a time, whose callback may send its own event again, nested as
\* deep as send lets it.
NextDeep ==
    \/ \E name \in Names, target \in Targets :
           stack = <<>> /\ events = EmptyMap /\ Add(name, target, LogOff)
    \/ \E name \in Names, target \in Targets :
           stack = <<>> /\ events = EmptyMap /\ AddOnce(name, target, LogOff)
    \/ \E name \in Names, target \in Targets :
           stack = <<>> /\ SendCall(name, target, MAX_RECURSION_DEPTH + 1)
    \/ stack # <<>> /\ SendCall(Top.name, Top.target, MAX_RECURSION_DEPTH + 1)
    \/ Invoke
    \/ CallbackReturn
    \/ SendReturn

SpecDeep == Init /\ [][NextDeep]_vars

\* The callbacks of SpecLive send an event again each time they are
\* invoked, unconditionally: a listener bound to a target sends its own event to
\* its target, a listener without target sends the other event to everyone.
Peer(name) == CHOOSE other \in Names : other # name
Current == Top.triggerList[Top.pos]
ResendName == IF Truthy(Current.target) THEN Current.name ELSE Peer(Current.name)

\* The send call of such a callback, when it passes the guards of send.
Resend ==
    /\ stack # <<>>
    /\ Running
    /\ (SendRefused(Engine) \/ SendNoListener(Engine, ResendName)) = FALSE
    /\ SendCall(ResendName, Current.target, MAX_RECURSION_DEPTH + 1)

\* Its send call returned at a guard: the callback returns.
ResendRefused ==
    /\ stack # <<>>
    /\ Running
    /\ (SendRefused(Engine) \/ SendNoListener(Engine, ResendName)) = TRUE
    /\ CallbackReturn

\* Its send call ran and returns: sending_depth--, and the callback returns.
ResendReturn ==
    /\ Len(stack) > 1
    /\ ~Top.inCb
    /\ Top.pos = Len(Top.triggerList)
    /\ Commit(sendExit(Engine, Top))
    /\ stack' = [Pop EXCEPT ![Len(stack) - 1].inCb = FALSE]
    /\ UNCHANGED <<fired, issued, registered, called>>

\* The top-level send returns.
TopReturn == Len(stack) = 1 /\ SendReturn

\* The steps of a broadcast whose callbacks send again.
Progress == Invoke \/ Resend \/ ResendRefused \/ ResendReturn \/ TopReturn

\* One listener per name; every callback may call the mutating methods and then
\* sends an event again, once per invocation.
NextLive ==
    \/ \E name \in Names, target \in Targets :
           stack = <<>> /\ SendNoListener(Engine, name) = TRUE /\ Add(name, target, LogOff)
    \/ \E name \in Names, target \in Targets :
           stack = <<>> /\ SendNoListener(Engine, name) = TRUE /\ AddOnce(name, target, LogOff)
    \/ \E name \in Names, target \in Targets :
           stack = <<>> /\ SendCall(name, target, MAX_RECURSION_DEPTH + 1)
    \/ \E name \in Names : stack # <<>> /\ RemoveByName(name, LogOff)
    \/ stack # <<>> /\ ClearAll(LogOff)
    \/ Invoke
    \/ Resend
    \/ ResendRefused
    \/ ResendReturn
    \/ TopReturn

\* A running send goes on: nothing suspends it.
SpecLive == Init /\ [][NextLive]_vars /\ WF_vars(Progress)

(***************************************************************************)
(* Steps of send, as seen from outside the actions.                         *)
(***************************************************************************)
\* A send call got past its guards and took its snapshot.
Entering == Len(stack') = Len(stack) + 1
\* The innermost send reached its end and returned.
Returning == Len(stack') = Len(stack) - 1 /\ sending_depth' = sending_depth - 1
\* The innermost send was left by an exception.
Aborting == Len(stack') = Len(stack) - 1 /\ sending_depth' = sending_depth
\* The innermost send calls its next callback, the one of InvokedEvent.
Invoking ==
    /\ stack # <<>>
    /\ Len(stack') = Len(stack)
    /\ stack'[Len(stack)].pos = Top.pos + 1
InvokedEvent == Top.triggerList[Top.pos + 1]

Ids(eventList) == [i \in 1..Len(eventList) |-> eventList[i].id]

\* C1: the callback of a listener registered with addOnce is invoked at most once,
\* whatever sends follow, top-level or nested: a once-listener is never invoked
\* when it has been invoked before.
C1_OnceInvokedOnce ==
    [][Invoking /\ InvokedEvent.once => InvokedEvent.id \notin fired]_vars

\* C2: a send call ends only after it has invoked every listener of its snapshot,
\* also when one of the callbacks throws.
C2_ThrowKeepsSiblings ==
    [][Len(stack') < Len(stack) => Top.pos = Len(Top.triggerList)]_vars

\* C3: a clearAll called under a broadcast removes nothing while the broadcast is in
\* flight and leaves every snapshot as it is; when the outermost send returns the
\* engine is empty, whatever else was queued: no record, no bucket (so no send
\* finds a listener), no pending command, the flag reset.
C3_ClearAllDeferred ==
    [][/\ (~commandManager.clearAll /\ commandManager'.clearAll)
            => UNCHANGED <<events, nameToIds, targetToIds, stack, sending_depth>>
       /\ commandManager.clearAll
            => IF sending_depth' = 0
               THEN /\ events' = EmptyMap
                    /\ nameToIds' = EmptyMap
                    /\ targetToIds' = EmptyMap
                    /\ commandManager'.index = 0
                    /\ ~commandManager'.clearAll
                    /\ \A name \in Names : SendNoListener(Engine', name)
               ELSE /\ UNCHANGED <<events, nameToIds, targetToIds>>
                    /\ commandManager'.clearAll]_vars

\* clearAll and another request were made under a broadcast of two listeners, both
\* of which have been invoked; the outermost send is about to return.
C3_Witness ==
    /\ commandManager.clearAll
    /\ commandManager.index > 0
    /\ sending_depth = 1
    /\ Len(stack) = 1
    /\ ~Top.inCb
    /\ Len(Top.triggerList) = 2
    /\ Top.pos = 2

\* C4: when the outermost send returns and no clearAll was requested, the
\* registrations are those that the calls made under the broadcast produce when
\* executed in call order with no broadcast in flight.
C4_QueueEqualsSequential ==
    [][sending_depth = 1 /\ sending_depth' = 0 /\ ~commandManager.clearAll
          => LET em0 == RemoveEach([Engine EXCEPT !.sending_depth = 0], Top.needRemoveIds)
             IN events' = ApplyEach(em0, issued).events]_vars

NewTop == stack'[Len(stack')]

\* The commands waiting in the queue, and the listeners waiting to be indexed.
Queued == SubSeq(commandManager.commands, 1, commandManager.index)
QueuedAdds == {i \in 1..commandManager.index : commandManager.commands[i].type = CmdAdd}

\* A removal command that matches the listener event.
Removes(command, event) ==
    \/ command.type = CmdRemoveById /\ command.eventId = event.id
    \/ command.type = CmdRemoveByName /\ command.name = event.name
    \/ command.type = CmdRemoveByTarget /\ command.target = event.target
    \/ /\ command.type = CmdRemoveByNameAndTarget
       /\ command.name = event.name
       /\ command.target = event.target

\* The listeners a send(name, target) is to reach: the registered ones of that name,
\* all of them without target, else those registered with that target.
Addressed(name, target) ==
    {id \in DOMAIN events :
        /\ events[id].name = name
        /\ (target = NoTarget \/ events[id].target = target)}

\* C5 as stated: a listener registered under a broadcast is invoked by the next send
\* call for its name, so every send call of its name made after the registration has
\* it in its snapshot.
C5_NextSendInvokes ==
    [][Entering
          => \A i \in QueuedAdds :
                LET event == Queued[i].event
                IN event.name = NewTop.name /\ Matches(NewTop.target, event)
                      => event.id \in Range(Ids(NewTop.triggerList))]_vars

\* C5 as amended: a listener registered under a broadcast is in no snapshot taken
\* before sending_depth is back at 0; at that moment it is registered, unless
\* clearAll was called or a removal matching it was queued after it; and every send
\* call takes exactly the registered listeners it addresses into its snapshot.
C5_RegisteredAfterBroadcast ==
    [][/\ \A i \in QueuedAdds :
             /\ Queued[i].event.id \notin DOMAIN events
             /\ \A k \in 1..Len(stack) :
                    Queued[i].event.id \notin Range(Ids(stack[k].triggerList))
       /\ Entering
             => Range(Ids(NewTop.triggerList)) = Addressed(NewTop.name, NewTop.target)
       /\ (sending_depth > 0 /\ sending_depth' = 0 /\ ~commandManager.clearAll)
             => \A i \in QueuedAdds :
                   LET event == Queued[i].event
                   IN (\A j \in (i + 1)..commandManager.index : ~Removes(Queued[j], event))
                         => /\ Has(events', event.id)
                            /\ events'[event.id] = event
                            /\ Has(nameToIds', event.name)
                            /\ event.id \in Range(nameToIds'[event.name])]_vars

\* A listener is queued under a broadcast of its own name, after the callback that
\* registered it has returned.
C5_Witness ==
    /\ Len(stack) = 1
    /\ ~Top.inCb
    /\ \E i \in QueuedAdds : Queued[i].event.name = Top.name

\* The position of an id in the order of the add / addOnce calls.
CallOrder(id) == CHOOSE i \in 1..Len(registered) : registered[i] = id
InCallOrder(ids) ==
    \A i, j \in 1..Len(ids) :
        i < j => /\ ids[i] \in Range(registered)
                 /\ ids[j] \in Range(registered)
                 /\ CallOrder(ids[i]) < CallOrder(ids[j])

\* C6: every name bucket lists its listeners in the order of their add / addOnce
\* calls, and so does every snapshot, which send invokes from first to last: the
\* listeners of a send are invoked in registration order.
C6_RegistrationOrder ==
    /\ \A name \in DOMAIN nameToIds : InCallOrder(nameToIds[name])
    /\ \A k \in 1..Len(stack) :
          /\ InCallOrder(Ids(stack[k].triggerList))
          /\ stack[k].pos <= Len(stack[k].triggerList)
          /\ {stack[k].triggerList[i].id : i \in 1..stack[k].pos} \subseteq fired

\* A send has invoked two listeners, the second of which was registered from a
\* callback and indexed from the queue (a command slot has been used and reset).
C6_Witness ==
    /\ commandManager.length > 0
    /\ commandManager.index = 0
    /\ Len(stack) = 1
    /\ Len(Top.triggerList) = 2
    /\ Top.pos = 2

\* C7: a send nested in a callback returns only after invoking every listener it
\* addresses, and returns to that callback with the send calls it is nested in
\* exactly as they were; these go on from where they stood, so that each send, at
\* its return, has invoked each listener it addresses once.
C7_NestedSend ==
    [][/\ Returning
            => /\ ~Top.inCb
               /\ Top.pos = Len(Top.triggerList)
               /\ Range(Ids(Top.triggerList)) = Addressed(Top.name, Top.target)
               /\ \A i, j \in 1..Len(Top.triggerList) :
                      i # j => Top.triggerList[i].id # Top.triggerList[j].id
               /\ stack' = Pop
       /\ Entering
            => /\ Pop' = stack
               /\ NewTop.pos = 0
       /\ \A k \in 1..Len(stack) :
              k <= Len(stack')
                 => /\ stack'[k].triggerList = stack[k].triggerList
                    /\ stack'[k].pos \in {stack[k].pos, stack[k].pos + 1}
                    /\ k < Len(stack) => stack'[k].pos = stack[k].pos /\ stack[k].inCb
       /\ Invoking => Top.pos < Len(Top.triggerList) /\ ~Top.inCb]_vars

\* A nested send has invoked its listeners and is about to return to a callback of
\* a send that has listeners left to invoke.
C7_Witness ==
    /\ Len(stack) = 2
    /\ stack[1].inCb
    /\ stack[1].pos < Len(stack[1].triggerList)
    /\ ~Top.inCb
    /\ Top.pos >= 1
    /\ Top.pos = Len(Top.triggerList)

\* C8: sending_depth never exceeds MAX_RECURSION_DEPTH, and nor does the nesting of
\* send calls; at that depth no send call starts a broadcast: none takes a snapshot
\* or raises the depth, so a listener that sends its own event again stops there.
C8_DepthLimit ==
    /\ [](sending_depth <= MAX_RECURSION_DEPTH /\ Len(stack) <= MAX_RECURSION_DEPTH)
    /\ [][sending_depth = MAX_RECURSION_DEPTH
             => /\ ~Entering
                /\ sending_depth' <= sending_depth
                /\ Len(stack') <= Len(stack)]_vars

\* A listener that sends its own event again has been invoked at depth 20, where
\* its next send is refused.
C8_Witness ==
    /\ sending_depth = MAX_RECURSION_DEPTH
    /\ Len(stack) = MAX_RECURSION_DEPTH
    /\ Top.inCb
    /\ \A k \in 1..Len(stack) : stack[k].name = Top.name

\* C9: the snapshot of send(name, target) holds exactly the registered listeners of
\* that name whose target is target, and that of send(name) every registered
\* listener of that name; at its return the send has invoked them all.
C9_TargetFilter ==
    [][/\ Entering
            => Range(Ids(NewTop.triggerList)) = Addressed(NewTop.name, NewTop.target)
       /\ Returning
            => /\ Top.pos = Len(Top.triggerList)
               /\ Range(Ids(Top.triggerList)) = Addressed(Top.name, Top.target)
               /\ Range(Ids(Top.triggerList)) \subseteq fired]_vars

\* send(name, "t1") has invoked the one listener of that name registered with t1
\* while another listener of that name, registered otherwise, was left out.
C9_Witness ==
    /\ stack # <<>>
    /\ Top.target = "t1"
    /\ Len(Top.triggerList) = 1
    /\ Top.pos = 1
    /\ \E id \in DOMAIN events :
          /\ events[id].name = Top.name
          /\ events[id].target # "t1"
          /\ id \notin fired

\* C10: the ids add and addOnce return are strictly increasing, so none is returned
\* twice; each registered or queued record carries the id returned for it, so an id
\* whose listener is gone names no other listener and remove of it removes none.
C10_IdsNeverReused ==
    /\ \A i, j \in 1..Len(registered) : i < j => registered[i] < registered[j]
    /\ \A id \in DOMAIN events : events[id].id = id /\ id \in Range(registered)
    /\ \A i \in QueuedAdds :
          /\ Queued[i].event.id \in Range(registered)
          /\ Queued[i].event.id \notin DOMAIN events
          /\ \A j \in QueuedAdds : i # j => Queued[i].event.id # Queued[j].event.id
    /\ \A id \in Range(registered) \ DOMAIN events :
          remove(Engine, id) = Engine

\* The listener of the first id is gone, a listener registered later is there.
C10_Witness ==
    /\ Len(registered) = 2
    /\ DOMAIN events = {registered[2]}
    /\ QueuedAdds = {}

(***************************************************************************)
(* Calls, as seen from outside the actions (SpecCalls).                     *)
(***************************************************************************)
\* The step is a call of the method op; its arguments are in called'.
Calling(op) == called' # called /\ called'.op = op

\* The registered listeners of a name, of a target, of both.
Named(name) == {id \in DOMAIN events : events[id].name = name}
Targeted(target) == {id \in DOMAIN events : events[id].target = target}

\* The registrations, the queue and the depth are as they were.
EngineUnchanged ==
    UNCHANGED <<sending_depth, events, nameToIds, targetToIds, commandManager, stack>>

\* C11 as stated: a removal that matches no registered listener leaves the
\* registrations, the queue and sending_depth unchanged, under a broadcast or not.
C11_RemovalOfNothing ==
    [][/\ Calling("remove") /\ called'.eventId \notin DOMAIN events
            => EngineUnchanged
       /\ Calling("removeByName") /\ Named(called'.name) = {}
            => EngineUnchanged
       /\ Calling("removeByTarget") /\ Targeted(called'.target) = {}
            => EngineUnchanged
       /\ Calling("removeByNameAndTarget")
          /\ Named(called'.name) \cap Targeted(called'.target) = {}
            => EngineUnchanged]_vars

\* The name has a non-empty bucket, the target has a non-empty bucket.
NameBucket(name) == Has(nameToIds, name) /\ nameToIds[name] # <<>>
TargetBucket(target) == Has(targetToIds, target) /\ targetToIds[target] # <<>>

\* C11, amended: a removal that matches no registered listener leaves the
\* registrations and sending_depth unchanged, under a broadcast or not, and the queue
\* too, but for removeByNameAndTarget called under a broadcast with a name and a
\* target that both have listeners, though none in common: that call is queued.
C11_RemovalOfNothingQueued ==
    [][/\ Calling("remove") /\ called'.eventId \notin DOMAIN events
            => EngineUnchanged
       /\ Calling("removeByName") /\ Named(called'.name) = {}
            => EngineUnchanged
       /\ Calling("removeByTarget") /\ Targeted(called'.target) = {}
            => EngineUnchanged
       /\ Calling("removeByNameAndTarget")
          /\ Named(called'.name) \cap Targeted(called'.target) = {}
            => /\ UNCHANGED <<sending_depth, events, nameToIds, targetToIds, stack>>
               /\ IF /\ sending_depth > 0
                     /\ NameBucket(called'.name)
                     /\ TargetBucket(called'.target)
                  THEN commandManager' =
                           CM_add(commandManager, CmdRemoveByNameAndTarget, 0,
                                  called'.name, called'.target)
                  ELSE UNCHANGED commandManager]_vars

\* Under a broadcast removeByNameAndTarget has just been called with a name and a
\* target that have no listener in common, and the call is in the queue.
C11_Witness ==
    /\ called.op = "removeByNameAndTarget"
    /\ Named(called.name) \cap Targeted(called.target) = {}
    /\ sending_depth > 0
    /\ stack # <<>>
    /\ commandManager.index = 1
    /\ commandManager.commands[1].type = CmdRemoveByNameAndTarget
    /\ commandManager.commands[1].name = called.name
    /\ commandManager.commands[1].target = called.target

\* C12: add and addOnce called with an empty name or without callback leave the
\* engine as it was, under a broadcast or not: no record is indexed or queued, no id
\* is taken, sending_depth and the send calls in progress are unchanged.
C12_InvalidArgument ==
    [][(/\ Calling("add") \/ Calling("addOnce")
        /\ called'.name = EmptyName \/ ~called'.callback)
            => /\ EngineUnchanged
               /\ UNCHANGED <<factory, registered, fired>>]_vars

\* From a callback addOnce has just been called with the empty name and a callback.
C12_Witness ==
    /\ called.op = "addOnce"
    /\ called.name = EmptyName
    /\ called.callback
    /\ sending_depth = 1
    /\ stack # <<>>
    /\ Top.inCb
    /\ EmptyName \notin DOMAIN nameToIds
    /\ commandManager.index = 0

\* The ids of the listeners send(name, target) would invoke if it were called on em.
Reached(em, name, target) ==
    IF SendNoListener(em, name)
    THEN {}
    ELSE Range(Ids(NewFrame(em, name, target).triggerList))

\* The step unregisters exactly the listeners gone: their records leave events, no
\* later send invokes them, every other listener stays and is invoked as before.
Unregisters(gone) ==
    /\ events' = [id \in (DOMAIN events) \ gone |-> events[id]]
    /\ \A name \in Names, target \in Targets :
          Reached(Engine', name, target) = Reached(Engine, name, target) \ gone
    /\ factory' = Recycle(factory, gone)
    /\ UNCHANGED <<sending_depth, commandManager, stack>>

\* C13: with no broadcast in flight remove(id) unregisters the listener of that id
\* and no other, removeByName(name) the listeners of that name and no other,
\* removeByTarget(target) the listeners of that target and no other.
C13_RemovalExact ==
    [][sending_depth = 0
         => /\ Calling("remove")
                 => Unregisters({called'.eventId} \cap DOMAIN events)
            /\ Calling("removeByName")
                 => Unregisters(Named(called'.name))
            /\ Calling("removeByTarget") /\ Truthy(called'.target)
                 => Unregisters(Targeted(called'.target))]_vars

\* removeByTarget has just been called at top level: the bucket of its target is
\* gone, a name bucket was left empty, and of two listeners one remains, which has
\* another target or none.
C13_Witness ==
    /\ called.op = "removeByTarget"
    /\ Truthy(called.target)
    /\ sending_depth = 0
    /\ called.target \notin DOMAIN targetToIds
    /\ \E name \in DOMAIN nameToIds : nameToIds[name] = <<>>
    /\ Len(registered) = 2
    /\ \E id \in DOMAIN events : DOMAIN events = {id} /\ events[id].target # called.target

\* C14: with no broadcast in flight removeByNameAndTarget(name, target) unregisters
\* the listeners that have both that name and that target, and no other, whichever
\* of the name bucket and the target bucket is the smaller one.
C14_NameAndTargetExact ==
    [][Calling("removeByNameAndTarget") /\ sending_depth = 0 /\ Truthy(called'.target)
         => Unregisters(Named(called'.name) \cap Targeted(called'.target))]_vars

\* removeByNameAndTarget has just been called where the name bucket was the smaller
\* one: a listener of that name stays with another target, and two listeners of
\* that target stay under another name.
C14_Witness ==
    /\ called.op = "removeByNameAndTarget"
    /\ Truthy(called.target)
    /\ Len(registered) = 4
    /\ Named(called.name) \cap Targeted(called.target) = {}
    /\ Cardinality(DOMAIN events) = 3
    /\ Cardinality(Named(called.name)) = 1
    /\ Cardinality(Targeted(called.target)) = 2
    /\ Len(nameToIds[called.name]) = 1
    /\ Len(targetToIds[called.target]) = 2

\* C15: clearAll called with no broadcast in flight leaves the engine empty: events
\* and both indices hold no entry, the queue holds no command and its clear-all flag
\* is reset, sending_depth is 0, and a send of any name would invoke no callback.
C15_ClearAllEmpties ==
    [][Calling("clearAll") /\ sending_depth = 0
         => /\ events' = EmptyMap
            /\ nameToIds' = EmptyMap
            /\ targetToIds' = EmptyMap
            /\ commandManager' =
                   [commands |-> <<>>, index |-> 0, length |-> 0, clearAll |-> FALSE]
            /\ sending_depth' = 0
            /\ stack' = <<>>
            /\ \A name \in Names, target \in Targets :
                  Reached(Engine', name, target) = {}]_vars

\* clearAll has just been called at top level, after listeners were registered and
\* a broadcast ran: nothing is left.
C15_Witness ==
    /\ called.op = "clearAll"
    /\ sending_depth = 0
    /\ stack = <<>>
    /\ Len(registered) = 2
    /\ fired # {}
    /\ events = EmptyMap
    /\ nameToIds = EmptyMap
    /\ commandManager.length = 0

\* C16: send(name) for a name without registered listener, called at top level or
\* from a callback, invokes no callback and leaves the registrations, the queue,
\* sending_depth and the send calls in progress as they were.
C16_SendNoListener ==
    [][Calling("send") /\ Named(called'.name) = {}
         => /\ EngineUnchanged
            /\ UNCHANGED <<fired, factory, registered, issued>>]_vars

\* From a callback send has just been called for a name whose bucket an earlier
\* removal left empty.
C16_Witness ==
    /\ called.op = "send"
    /\ Named(called.name) = {}
    /\ Has(nameToIds, called.name)
    /\ nameToIds[called.name] = <<>>
    /\ sending_depth = 1
    /\ Len(stack) = 1
    /\ Top.inCb

\* C17: while sending_depth > 0 no step changes events, nameToIds or targetToIds; a
\* step that leaves sending_depth above 0 can only add one command to the queue or
\* set its clear-all flag.
C17_IndicesFrozen ==
    [][sending_depth > 0 /\ sending_depth' > 0
         => /\ UNCHANGED <<events, nameToIds, targetToIds>>
            /\ \/ UNCHANGED commandManager
               \/ /\ commandManager'.index = commandManager.index + 1
                  /\ SubSeq(commandManager'.commands, 1, commandManager.index) = Queued
                  /\ commandManager'.clearAll = commandManager.clearAll
               \/ /\ commandManager' = [commandManager EXCEPT !.clearAll = TRUE]]_vars

\* In a callback, with listeners registered: a registration and a removal are in the
\* queue and clearAll has been called.
C17_Witness ==
    /\ sending_depth > 0
    /\ stack # <<>>
    /\ Top.inCb
    /\ events # EmptyMap
    /\ commandManager.clearAll
    /\ commandManager.index = 2
    /\ commandManager.commands[1].type = CmdAdd
    /\ commandManager.commands[2].type # CmdAdd

\* The ids of a bucket, each id once.
NoDuplicate(ids) == \A i, j \in 1..Len(ids) : i # j => ids[i] # ids[j]

\* C18: the indices are consistent.  Every id of a name bucket or of a target bucket
\* is a key of events, and no bucket holds an id twice; every record of events is
\* stored under its own id, is in the bucket of its name and in no other name
\* bucket, and, if it has a target, in the bucket of its target and in no other
\* target bucket; a record without target is in no target bucket.
C18_IndicesConsistent ==
    /\ \A name \in DOMAIN nameToIds :
          /\ Range(nameToIds[name]) \subseteq DOMAIN events
          /\ NoDuplicate(nameToIds[name])
    /\ \A target \in DOMAIN targetToIds :
          /\ Range(targetToIds[target]) \subseteq DOMAIN events
          /\ NoDuplicate(targetToIds[target])
          /\ Truthy(target)
    /\ \A id \in DOMAIN events :
          /\ events[id].id = id
          /\ \A name \in DOMAIN nameToIds :
                id \in Range(nameToIds[name]) <=> name = events[id].name
          /\ Has(nameToIds, events[id].name)
          /\ \A target \in DOMAIN targetToIds :
                id \in Range(targetToIds[target]) <=> target = events[id].target
          /\ Truthy(events[id].target) => Has(targetToIds, events[id].target)

\* After a broadcast one of two listeners is gone: its name bucket and its target
\* bucket are still there, empty, and the other listener is indexed in its own.
C18_Witness ==
    /\ sending_depth = 0
    /\ fired # {}
    /\ Len(registered) = 2
    /\ Cardinality(DOMAIN events) = 1
    /\ \E name \in DOMAIN nameToIds : nameToIds[name] = <<>>
    /\ \E target \in DOMAIN targetToIds : targetToIds[target] = <<>>
    /\ \E id \in DOMAIN events : Truthy(events[id].target)

\* C19: sending_depth is the number of send calls executing their callback pass: it
\* is never negative, and it is 0 whenever no send call is on the call stack.
C19_DepthCountsSends ==
    /\ sending_depth >= 0
    /\ sending_depth = Len(stack)

\* C20: when the outermost send returns, no once-listener that has been invoked is
\* registered any longer, whether the send that invoked it was the outermost one or
\* one nested in it.
C20_NestedOnceRemoved ==
    [][Returning /\ sending_depth' = 0
         => \A id \in fired :
               /\ Has(events', id) => ~events'[id].once
               /\ Has(events, id) /\ events[id].once
                     => \A name \in DOMAIN nameToIds' : id \notin Range(nameToIds'[name])
               /\ Has(events, id) /\ events[id].once
                     => \A target \in DOMAIN targetToIds' :
                           id \notin Range(targetToIds'[target])]_vars

\* A removal call that matches the listener event: by its id, its name, its target
\* (a target object), or both.
Matching(command, event) ==
    /\ Removes(command, event)
    /\ command.type \in {CmdRemoveByTarget, CmdRemoveByNameAndTarget}
          => Truthy(command.target)

\* C21: a listener registered from a callback and removed by a later call made under
\* the same broadcast (remove with its id, or removeByName, removeByTarget or
\* removeByNameAndTarget matching it) is not registered when the outermost send
\* has returned.
C21_AddedThenRemoved ==
    [][sending_depth = 1 /\ sending_depth' = 0
         => \A i, j \in 1..Len(issued) :
               (i < j /\ issued[i].type = CmdAdd /\ Matching(issued[j], issued[i].event))
                  => ~Has(events', issued[i].event.id)]_vars

\* The once-listeners of a name that send(name, target) does not address: target is
\* an object and theirs is another one, or none.
Bystanders(name, target) ==
    {id \in DOMAIN events :
        /\ events[id].once
        /\ events[id].name = name
        /\ Truthy(target)
        /\ events[id].target # target}

\* C22: send(name, T') neither invokes nor marks for removal a once-listener of that
\* name registered with another target: it is not in the snapshot, not in the list
\* of ids to remove, a send(name) or a send with its own target would still reach
\* it, and the cleanup of the outermost send leaves it registered unless a queued
\* removal or clearAll takes it.
C22_OnceNeedsMatch ==
    [][/\ Entering
            => \A id \in Bystanders(NewTop.name, NewTop.target) :
                  /\ id \notin Range(Ids(NewTop.triggerList))
                  /\ id \notin Range(NewTop.needRemoveIds)
                  /\ id \in Reached(Engine', NewTop.name, NoTarget)
                  /\ Truthy(events[id].target)
                        => id \in Reached(Engine', NewTop.name, events[id].target)
       /\ (Returning /\ sending_depth' = 0 /\ Len(stack) = 1
           /\ commandManager.index = 0 /\ ~commandManager.clearAll)
            => \A id \in Bystanders(Top.name, Top.target) :
                  /\ Has(events', id)
                  /\ id \in Reached(Engine', Top.name, NoTarget)]_vars

\* send(name, "t2") has invoked the listener registered with t2 while a once-listener
\* of that name registered with t1 was left out and is not marked for removal.
C22_Witness ==
    /\ Len(stack) = 1
    /\ Top.target = "t2"
    /\ Top.pos = 1
    /\ Len(Top.triggerList) = 1
    /\ Top.needRemoveIds = <<>>
    /\ \E id \in Bystanders(Top.name, Top.target) : events[id].target = "t1"

\* C23: a removal called under a broadcast takes no listener out of a snapshot, so
\* each send still invokes every listener of its snapshot before it returns; when
\* the outermost send returns, every listener that was registered and that a
\* removal called under the broadcast matches is unregistered, and no send started
\* from then on would reach it.
C23_RemovedStillInvoked ==
    [][/\ \A k \in 1..Len(stack) :
             k <= Len(stack') => stack'[k].triggerList = stack[k].triggerList
       /\ Returning
             => /\ Top.pos = Len(Top.triggerList)
                /\ Range(Ids(Top.triggerList)) \subseteq fired
       /\ (sending_depth = 1 /\ sending_depth' = 0)
             => \A j \in 1..Len(issued), id \in DOMAIN events :
                   Matching(issued[j], events[id])
                      => /\ ~Has(events', id)
                         /\ \A name \in Names, target \in Targets :
                               id \notin Reached(Engine', name, target)]_vars

\* The second listener of a snapshot is being invoked while a remove of its id,
\* called under this broadcast, waits in the queue.
C23_Witness ==
    /\ Len(stack) = 1
    /\ Len(Top.triggerList) = 2
    /\ Top.pos = 2
    /\ Top.inCb
    /\ Len(issued) = 1
    /\ issued[1].type = CmdRemoveById
    /\ issued[1].eventId = Top.triggerList[2].id
    /\ commandManager.index = 1

\* C24: whenever sending_depth is 0 the queue holds no pending command and its
\* clear-all flag is false; the step in which the outermost send returns applies
\* the pending commands once, in order, or clearAll alone if it was requested, and
\* every command slot is left reset.
C24_QueueConsumedOnce ==
    /\ [](sending_depth = 0
            => /\ commandManager.index = 0
               /\ ~commandManager.clearAll
               /\ commandManager.length = Len(commandManager.commands)
               /\ \A i \in 1..Len(commandManager.commands) :
                     commandManager.commands[i] = ResetCommand)
    /\ [][(sending_depth = 1 /\ sending_depth' = 0)
            => LET em0 == RemoveEach([Engine EXCEPT !.sending_depth = 0],
                                     Top.needRemoveIds)
               IN events' = IF commandManager.clearAll
                            THEN EmptyMap
                            ELSE ApplyEach(em0, Queued).events]_vars

\* A broadcast has returned after two commands were queued under it: both slots are
\* there, reset, and nothing is pending.
C24_Witness ==
    /\ sending_depth = 0
    /\ stack = <<>>
    /\ commandManager.length = 2
    /\ commandManager.index = 0
    /\ ~commandManager.clearAll
    /\ events # EmptyMap

\* C25: a listener registered from a callback is invisible while it waits in the
\* queue: it has not been invoked, no send call started now would reach it, and no
\* send call that starts, nested ones of its name included, has it in its snapshot.
\* When the outermost send returns it becomes visible, provided neither clearAll
\* nor a removal matching it was queued after it: a send of its name started then,
\* without target or with its target, reaches it.
C25_VisibleAfterOutermost ==
    [][/\ \A i \in QueuedAdds :
             /\ Queued[i].event.id \notin fired
             /\ \A name \in Names, target \in Targets :
                   Queued[i].event.id \notin Reached(Engine, name, target)
       /\ Entering
             => \A i \in QueuedAdds :
                   Queued[i].event.id \notin Range(Ids(NewTop.triggerList))
       /\ (sending_depth = 1 /\ sending_depth' = 0 /\ ~commandManager.clearAll)
             => \A i \in QueuedAdds :
                   LET event == Queued[i].event
                   IN (\A j \in (i + 1)..commandManager.index : ~Removes(Queued[j], event))
                         => /\ event.id \in Reached(Engine', event.name, NoTarget)
                            /\ event.id \in Reached(Engine', event.name, event.target)]_vars

\* A nested send has just taken its snapshot, for a name for which a listener
\* registered earlier in the broadcast waits in the queue.
C25_Witness ==
    /\ Len(stack) = 2
    /\ Top.pos = 0
    /\ Top.triggerList # <<>>
    /\ \E i \in QueuedAdds :
          /\ Queued[i].event.name = Top.name
          /\ Matches(Top.target, Queued[i].event)
          /\ Queued[i].event.id \notin Range(Ids(Top.triggerList))

\* C26: every send call terminates: whenever send calls are in progress, the call
\* stack empties again.
C26_SendTerminates == (stack # <<>>) ~> (stack = <<>>)

\* The nesting has reached the depth limit.
C26_Witness ==
    /\ Len(stack) = MAX_RECURSION_DEPTH
    /\ sending_depth = MAX_RECURSION_DEPTH
    /\ Top.inCb
    /\ commandManager.index > 0

\* The records a send call in progress holds in its snapshot and has not invoked yet.
Pending(frame) == {frame.triggerList[i].id : i \in (frame.pos + 1)..Len(frame.triggerList)}

\* C27: no record is passed to recycle while a send call in progress still has to
\* invoke it or while it waits in a queued Add command, and no record is passed to
\* recycle twice.
C27_RecycledWhenUnused ==
    /\ \A k \in 1..Len(stack) : Pending(stack[k]) \cap DOMAIN factory.recycled = {}
    /\ \A i \in QueuedAdds : commandManager.commands[i].event.id \notin DOMAIN factory.recycled
    /\ \A id \in DOMAIN factory.recycled : factory.recycled[id] = 1

\* A record has been recycled and a send call in progress holds a record it has
\* not invoked yet.
C27_Witness ==
    /\ stack # <<>>
    /\ Pending(Top) # {}
    /\ factory.recycled # EmptyMap
====
